---- MODULE Spec2Model ----
(***************************************************************************)
(* String column encodings of mem_store/strings.rs: the zero-terminated    *)
(* StringPacker, the DictEncodedStrings dictionary encoding, and           *)
(* build_string_column which chooses between them.                         *)
(*                                                                         *)
(* A string is the sequence of its UTF-8 bytes.  An Option<Rc<String>> row *)
(* is a record [some, val].  A call that panics yields Panic and ends the  *)
(* program: no operation follows it.                                       *)
(***************************************************************************)
EXTENDS Integers, Sequences, FiniteSets, TLC

MaxRows == 2
MaxStrLen == 1
MaxPackedLen == 2
MaxMaskExtra == 1
MaxEndCalls == 2

\* Byte values the input strings are drawn from: the zero byte and 'a'.
Bytes == {0, 97}

MAX_UNIQUE_STRINGS == 10000
U16_MAX == 65535

VARIABLES values, unique_values, column, result, reader

vars == <<values, unique_values, column, result, reader>>

----------------------------------------------------------------------------
\* Values

None == [some |-> FALSE, val |-> <<>>]
Some(s) == [some |-> TRUE, val |-> s]

Ok(v) == [ok |-> TRUE, val |-> v]
Panic == [ok |-> FALSE, val |-> <<>>]

Range(f) == {f[i] : i \in DOMAIN f}
Min(a, b) == IF a < b THEN a ELSE b

\* The strings of at most maxLen bytes, the rows over them, and the row
\* sequences of at most MaxRows rows.
Strings(maxLen) == UNION {[1..k -> Bytes] : k \in 0..maxLen}
RowValues(maxLen) == {None} \cup {Some(s) : s \in Strings(maxLen)}
RowSeqs(maxLen) == UNION {[1..k -> RowValues(maxLen)] : k \in 0..MaxRows}
BitVecs(maxLen) == UNION {[1..k -> BOOLEAN] : k \in 0..maxLen}

\* A column: kind says which struct it is ("none" before construction,
\* "panic" when construction panicked); data is StringPacker's buffer,
\* mapping and encoded_values are DictEncodedStrings' fields.
NoColumn == [kind |-> "none", data |-> <<>>,
             mapping |-> [head |-> <<>>, off |-> 0, len |-> 0],
             encoded_values |-> <<>>]
PanicColumn == [NoColumn EXCEPT !.kind = "panic"]

----------------------------------------------------------------------------
\* StringPacker

\* StringPacker::push: the bytes of the string, then the terminator 0.
push(data, string) == data \o string \o <<0>>

RECURSIVE PushAll(_, _, _)
PushAll(data, strings, i) ==
    IF i > Len(strings) THEN data
    ELSE PushAll(push(data, IF strings[i].some THEN strings[i].val ELSE <<>>),
                 strings, i + 1)

\* StringPacker::from_strings: push every row, a null row as "".
StringPacker_from_strings(strings) ==
    [NoColumn EXCEPT !.kind = "packer", !.data = PushAll(<<>>, strings, 1)]

\* StringPacker::iter: a reader at the start of the buffer.
iter(col) == [curr_index |-> 0]

\* The while loop of next: the first index >= index holding 0; -1 when the
\* scan runs off the end of the buffer (an out-of-bounds index panics).
RECURSIVE ScanTerminator(_, _)
ScanTerminator(data, index) ==
    IF index >= Len(data) THEN -1
    ELSE IF data[index + 1] = 0 THEN index
    ELSE ScanTerminator(data, index + 1)

\* StringPackerIterator::next.  kind "none" is the end of the sequence.
StringPackerIterator_next(data, curr_index) ==
    IF curr_index >= Len(data)
    THEN [kind |-> "none", item |-> <<>>, curr_index |-> curr_index]
    ELSE LET index == ScanTerminator(data, curr_index)
         IN IF index = -1
            THEN [kind |-> "panic", item |-> <<>>, curr_index |-> curr_index]
            ELSE [kind |-> "some",
                  item |-> SubSeq(data, curr_index + 1, index),
                  curr_index |-> index + 1]

\* self.iter().collect(): call next until it reports the end.
RECURSIVE CollectFrom(_, _)
CollectFrom(data, curr_index) ==
    LET n == StringPackerIterator_next(data, curr_index)
    IN IF n.kind = "none" THEN Ok(<<>>)
       ELSE IF n.kind = "panic" THEN Panic
       ELSE LET rest == CollectFrom(data, n.curr_index)
            IN IF rest.ok THEN Ok(<<n.item>> \o rest.val) ELSE Panic

StringPacker_collect_decoded(col) == CollectFrom(col.data, iter(col).curr_index)

\* self.iter().zip(filter.iter()): zip asks the reader first, then the
\* filter, and stops at the first end; selected elements are pushed.
RECURSIVE ZipFilterFrom(_, _, _, _)
ZipFilterFrom(data, curr_index, filter, i) ==
    LET n == StringPackerIterator_next(data, curr_index)
    IN IF n.kind = "none" THEN Ok(<<>>)
       ELSE IF n.kind = "panic" THEN Panic
       ELSE IF i > Len(filter) THEN Ok(<<>>)
       ELSE LET rest == ZipFilterFrom(data, n.curr_index, filter, i + 1)
            IN IF ~rest.ok THEN Panic
               ELSE Ok((IF filter[i] THEN <<n.item>> ELSE <<>>) \o rest.val)

\* filter_decode without the test of the select bit.
StringPacker_filter_decode_all(col, filter) ==
    LET all == CollectFrom(col.data, iter(col).curr_index)
    IN IF ~all.ok THEN Panic
       ELSE Ok(SubSeq(all.val, 1, Min(Len(all.val), Len(filter))))

StringPacker_filter_decode(col, filter) ==
    ZipFilterFrom(col.data, iter(col).curr_index, filter, 1)

----------------------------------------------------------------------------
\* UniqueValues and the HashSet it holds

\* A HashSet<Option<Rc<String>>> is [vals, pad]: the entries that are row
\* values, and the number of further entries, all distinct non-null strings
\* outside the row alphabet.  Only the count of the latter matters.
HashSet(vals, pad) == [vals |-> vals, pad |-> pad]
HashSetLen(u) == Cardinality(u.vals) + u.pad

\* UniqueValues::get_values: the set when it is within the ceiling.
get_values(u) ==
    IF HashSetLen(u) <= MAX_UNIQUE_STRINGS
    THEN [some |-> TRUE, val |-> u]
    ELSE [some |-> FALSE, val |-> HashSet({}, 0)]

\* The iteration orders of a set: every sequence that lists it once.
Orders(S) == {f \in [1..Cardinality(S) -> S] : Range(f) = S}

----------------------------------------------------------------------------
\* DictEncodedStrings

ToU16(n) == n % 65536

\* An entry of the dictionary that is no row value.
Filler(p) == Some(<<-1, p>>)

\* mapping[i] for a position i (from 0): the listed entries sit at
\* off .. off + Len(head) - 1, the other positions hold fillers.
MappingAt(mapping, i) ==
    IF i >= mapping.off /\ i < mapping.off + Len(mapping.head)
    THEN mapping.head[i - mapping.off + 1]
    ELSE Filler(i)

\* reverse_mapping: mapping.iter().zip(0..) with a u16 counter, so the entry
\* at position p gets ToU16(p); a later duplicate key overwrites an earlier one.
EntryIndex(mapping, p) == ToU16(p)

\* reverse_mapping with the counter started at 1.
reverse_mapping_from_one(mapping) ==
    [v \in Range(mapping.head) |->
        EntryIndex(mapping,
                   mapping.off
                   + (CHOOSE k \in 1..Len(mapping.head) : mapping.head[k] = v))]

reverse_mapping(mapping) ==
    [v \in Range(mapping.head) |->
        EntryIndex(mapping,
                   mapping.off
                   + (CHOOSE k \in 1..Len(mapping.head) : mapping.head[k] = v)
                   - 1)]

\* from_strings without the assertion on the size of the set; the u16
\* counter wraps past 65535.
DictEncodedStrings_from_strings_unchecked(strings, u, order, off) ==
    LET mapping == [head |-> order, off |-> off, len |-> HashSetLen(u)]
        rm == reverse_mapping(mapping)
    IN IF \E i \in 1..Len(strings) : strings[i] \notin DOMAIN rm
       THEN PanicColumn
       ELSE [NoColumn EXCEPT
               !.kind = "dict",
               !.mapping = mapping,
               !.encoded_values = [i \in 1..Len(strings) |-> rm[strings[i]]]]

\* DictEncodedStrings::from_strings.  order and off fix the iteration order
\* of the HashSet, which the caller does not control.
DictEncodedStrings_from_strings(strings, u, order, off) ==
    IF ~(HashSetLen(u) <= U16_MAX) THEN PanicColumn
    ELSE LET mapping == [head |-> order, off |-> off, len |-> HashSetLen(u)]
             rm == reverse_mapping(mapping)
         IN IF \E i \in 1..Len(strings) : strings[i] \notin DOMAIN rm
            THEN PanicColumn
            ELSE [NoColumn EXCEPT
                    !.kind = "dict",
                    !.mapping = mapping,
                    !.encoded_values = [i \in 1..Len(strings) |-> rm[strings[i]]]]

\* PointCodec::decode: mapping[*encoded_value as usize].as_ref().unwrap();
\* an index past the dictionary or a null entry panics.
decode(col, data) ==
    IF \E i \in 1..Len(data) :
          \/ data[i] >= col.mapping.len
          \/ ~MappingAt(col.mapping, data[i]).some
    THEN Panic
    ELSE Ok([i \in 1..Len(data) |-> MappingAt(col.mapping, data[i]).val])

DictEncodedStrings_collect_decoded(col) == decode(col, col.encoded_values)

\* The positions both zip sides have, and of those the selected ones.
RECURSIVE SelectFrom(_, _, _)
SelectFrom(s, filter, i) ==
    IF i > Len(s) \/ i > Len(filter) THEN <<>>
    ELSE (IF filter[i] THEN <<s[i]>> ELSE <<>>) \o SelectFrom(s, filter, i + 1)

\* ColumnCodec::get_encoded / filter_encoded.
get_encoded(col) == col.encoded_values

\* filter_encoded that returns every index, selected or not.
filter_encoded_unfiltered(col, filter) == col.encoded_values

filter_encoded(col, filter) == SelectFrom(col.encoded_values, filter, 1)

\* DictEncodedStrings::filter_decode: walk encoded_values zipped with the
\* filter and unwrap the dictionary entry of each selected row.
RECURSIVE FilterDecodeFrom(_, _, _)
FilterDecodeFrom(col, filter, i) ==
    IF i > Len(col.encoded_values) \/ i > Len(filter) THEN Ok(<<>>)
    ELSE IF ~filter[i] THEN FilterDecodeFrom(col, filter, i + 1)
    ELSE IF \/ col.encoded_values[i] >= col.mapping.len
            \/ ~MappingAt(col.mapping, col.encoded_values[i]).some
    THEN Panic
    ELSE LET rest == FilterDecodeFrom(col, filter, i + 1)
         IN IF ~rest.ok THEN Panic
            ELSE Ok(<<MappingAt(col.mapping, col.encoded_values[i]).val>>
                    \o rest.val)

DictEncodedStrings_filter_decode(col, filter) == FilterDecodeFrom(col, filter, 1)

----------------------------------------------------------------------------
\* build_string_column and the ColumnData dispatch

\* build_string_column with the two branches exchanged.
build_string_column_inverted(vals, u, order, off) ==
    IF ~get_values(u).some
    THEN DictEncodedStrings_from_strings(vals, u, order, off)
    ELSE StringPacker_from_strings(vals)

build_string_column(vals, u, order, off) ==
    IF get_values(u).some
    THEN DictEncodedStrings_from_strings(vals, get_values(u).val, order, off)
    ELSE StringPacker_from_strings(vals)

collect_decoded(col) ==
    IF col.kind = "packer" THEN StringPacker_collect_decoded(col)
    ELSE DictEncodedStrings_collect_decoded(col)

filter_decode(col, filter) ==
    IF col.kind = "packer" THEN StringPacker_filter_decode(col, filter)
    ELSE DictEncodedStrings_filter_decode(col, filter)

----------------------------------------------------------------------------
\* State

NoResult == [op |-> "none", filter |-> <<>>, out |-> Ok(<<>>)]
NoReader == [active |-> FALSE, curr_index |-> 0, yielded |-> <<>>,
             ended |-> 0, panicked |-> FALSE]

\* Sizes of the part of a unique-value set that lies outside the rows: none,
\* and enough to bring the set to the ceiling of the analysis or to the
\* limit of a 16-bit index.
Pads == {0, MAX_UNIQUE_STRINGS - 1, U16_MAX - 1}

\* A row value that the unique-value set may hold without any row having it.
ExtraValues == {Some(<<97>>)}

\* The unique-value sets tried for a row sequence: exactly its values, its
\* values less one, its values and one more; each with every pad.
UniqueChoices(rows) ==
    LET exact == Range(rows)
        sets == {exact} \cup {exact \ {v} : v \in exact}
                        \cup {exact \cup {e} : e \in ExtraValues}
    IN {HashSet(S, pad) : S \in sets, pad \in Pads}

\* The row masks a column is queried with: a dictionary column with every
\* mask of row-count length, a packer column also with every shorter mask
\* and every mask up to MaxMaskExtra longer.
Filters(col) ==
    IF col.kind = "packer"
    THEN BitVecs(Len(values) + MaxMaskExtra)
    ELSE [1..Len(values) -> BOOLEAN]

Alive == column.kind \in {"packer", "dict"} /\ result.out.ok /\ ~reader.panicked

\* The column has just been built.  A run builds a column and then makes
\* one query or one pass of a reader: the column is immutable and every
\* query takes &self, so a later query meets the same column.
Fresh ==
    /\ Alive
    /\ result.op \in {"build_string_column", "DictEncodedStrings::from_strings",
                      "StringPacker::from_strings"}

Init ==
    /\ values \in RowSeqs(MaxStrLen)
    /\ unique_values \in UniqueChoices(values)
    /\ column = NoColumn
    /\ result = NoResult
    /\ reader = NoReader

InitPacker ==
    /\ values \in RowSeqs(MaxPackedLen)
    /\ unique_values = HashSet({}, 0)
    /\ column = NoColumn
    /\ result = NoResult
    /\ reader = NoReader

Built(op, col) ==
    /\ column' = col
    /\ result' = [op |-> op, filter |-> <<>>,
                  out |-> IF col.kind = "panic" THEN Panic ELSE Ok(<<>>)]
    /\ UNCHANGED <<values, unique_values, reader>>

BuildStringColumn ==
    /\ column.kind = "none"
    /\ \E order \in Orders(unique_values.vals) : \E off \in {0, unique_values.pad} :
          Built("build_string_column",
                build_string_column(values, unique_values, order, off))

DictFromStrings ==
    /\ column.kind = "none"
    /\ \E order \in Orders(unique_values.vals) : \E off \in {0, unique_values.pad} :
          Built("DictEncodedStrings::from_strings",
                DictEncodedStrings_from_strings(values, unique_values, order, off))

PackerFromStrings ==
    /\ column.kind = "none"
    /\ Built("StringPacker::from_strings", StringPacker_from_strings(values))

Returned(op, filter, out) ==
    /\ result' = [op |-> op, filter |-> filter, out |-> out]
    /\ reader' = NoReader
    /\ UNCHANGED <<values, unique_values, column>>

CollectDecoded ==
    /\ Fresh
    /\ Returned("collect_decoded", <<>>, collect_decoded(column))

FilterDecode ==
    /\ Fresh
    /\ \E filter \in Filters(column) :
          Returned("filter_decode", filter, filter_decode(column, filter))

GetEncoded ==
    /\ Fresh
    /\ column.kind = "dict"
    /\ Returned("get_encoded", <<>>, Ok(get_encoded(column)))

FilterEncoded ==
    /\ Fresh
    /\ column.kind = "dict"
    /\ \E filter \in Filters(column) :
          Returned("filter_encoded", filter, Ok(filter_encoded(column, filter)))

\* StringPacker::iter: a fresh reader over the buffer.
Iter ==
    /\ Fresh
    /\ column.kind = "packer"
    /\ reader' = [NoReader EXCEPT !.active = TRUE,
                                  !.curr_index = iter(column).curr_index]
    /\ result' = [op |-> "iter", filter |-> <<>>, out |-> Ok(<<>>)]
    /\ UNCHANGED <<values, unique_values, column>>

\* One call of next on the reader; calls after the end are counted up to
\* MaxEndCalls.
IterNext ==
    /\ Alive
    /\ reader.active
    /\ reader.ended < MaxEndCalls
    /\ LET n == StringPackerIterator_next(column.data, reader.curr_index)
       IN reader' = [reader EXCEPT
                        !.curr_index = n.curr_index,
                        !.yielded = IF n.kind = "some" THEN @ \o <<n.item>> ELSE @,
                        !.ended = IF n.kind = "none" THEN @ + 1 ELSE @,
                        !.panicked = (n.kind = "panic")]
    /\ UNCHANGED <<values, unique_values, column, result>>

Next ==
    \/ BuildStringColumn
    \/ DictFromStrings
    \/ CollectDecoded
    \/ FilterDecode
    \/ GetEncoded
    \/ FilterEncoded

NextPacker ==
    \/ PackerFromStrings
    \/ CollectDecoded
    \/ FilterDecode
    \/ Iter
    \/ IterNext

Spec == Init /\ [][Next]_vars
SpecPacker == InitPacker /\ [][NextPacker]_vars

----------------------------------------------------------------------------
\* Vocabulary of the properties

Covers == \A i \in 1..Len(values) : values[i] \in unique_values.vals
NonNull(rows) == \A i \in 1..Len(rows) : rows[i].some
HasNull(rows) == \E i \in 1..Len(rows) : ~rows[i].some
Originals(rows) == [i \in 1..Len(rows) |-> rows[i].val]
PopCount(filter) == Cardinality({i \in 1..Len(filter) : filter[i]})

\* The elements of s at the set-bit positions of filter, in order.
SetBits(filter, n) == {i \in 1..Min(n, Len(filter)) : filter[i]}
Nth(S, k) == CHOOSE x \in S : Cardinality({y \in S : y < x}) = k - 1
Selected(s, filter) ==
    [k \in 1..Cardinality(SetBits(filter, Len(s))) |->
        s[Nth(SetBits(filter, Len(s)), k)]]

IsNullOrEmpty(v) == v = None \/ v = Some(<<>>)
SameUpToNullEmpty(a, b) ==
    /\ Len(a) = Len(b)
    /\ \A i \in 1..Len(a) : a[i] = b[i] \/ (IsNullOrEmpty(a[i]) /\ IsNullOrEmpty(b[i]))

DictBuilt == result.op \in {"build_string_column", "DictEncodedStrings::from_strings"}

----------------------------------------------------------------------------
\* C1: round trip.  A column built from non-null rows, by the packer or by
\* the dictionary encoder with exactly the rows' unique values, decodes
\* with collect_decoded to the original strings, same length, same order.
RoundTrip ==
    (/\ result.op = "collect_decoded"
     /\ NonNull(values)
     /\ \/ column.kind = "packer"
        \/ column.kind = "dict" /\ unique_values = HashSet(Range(values), 0))
    => result.out = Ok(Originals(values))

\* C2: filter correctness.  For a mask of row-count length filter_decode
\* returns the elements of collect_decoded at the set-bit positions, in row
\* order, as many as the mask has set bits.
FilterCorrectness ==
    (result.op = "filter_decode" /\ Len(result.filter) = Len(values))
    => /\ result.out.ok
       /\ Len(result.out.val) = PopCount(result.filter)
       /\ collect_decoded(column).ok
           => result.out.val = Selected(collect_decoded(column).val, result.filter)

\* C3: encoded-access consistency.  Decoding what get_encoded returns gives
\* the outcome of collect_decoded, and for a mask of row-count length
\* decoding what filter_encoded returns gives the outcome of filter_decode.
EncodedAccessConsistency ==
    column.kind = "dict"
    => /\ result.op = "get_encoded"
           => decode(column, result.out.val) = collect_decoded(column)
       /\ (result.op = "filter_encoded" /\ Len(result.filter) = Len(values))
           => decode(column, result.out.val) = filter_decode(column, result.filter)

EncodedAccessWitness ==
    /\ column.kind = "dict"
    /\ result.op = "filter_encoded"
    /\ Len(result.filter) = Len(values)
    /\ \E i, j \in 1..Len(result.filter) : result.filter[i] /\ ~result.filter[j]
    /\ Cardinality(Range(column.encoded_values)) >= 2
    /\ Len(result.out.val) >= 1
    /\ decode(column, result.out.val).ok

\* C4: encoding choice.  build_string_column builds the dictionary encoder
\* exactly when get_values returns a set and the packer otherwise, and with
\* a set that covers every row value the build returns a column.
EncodingChoice ==
    result.op = "build_string_column"
    => /\ get_values(unique_values).some => column.kind \in {"dict", "panic"}
       /\ ~get_values(unique_values).some => column.kind = "packer"
       /\ (get_values(unique_values).some /\ Covers)
           => column.kind = "dict" /\ result.out.ok

EncodingChoiceWitness ==
    /\ result.op = "build_string_column"
    /\ HashSetLen(unique_values) = MAX_UNIQUE_STRINGS
    /\ Covers
    /\ Len(values) >= 2
    /\ column.kind = "dict"

\* C5: a dictionary column with null rows.  With a bounded unique-value set
\* that covers the rows, a null among them, the dictionary encoder is chosen
\* and collect_decoded returns one element per row: the original string of a
\* non-null row, and for a null row the empty string or some null marker.
NullRowDecode ==
    (/\ result.op = "collect_decoded"
     /\ HasNull(values)
     /\ get_values(unique_values).some
     /\ Covers)
    => /\ column.kind = "dict"
       /\ result.out.ok
       /\ Len(result.out.val) = Len(values)
       /\ \A i \in 1..Len(values) :
              values[i].some => result.out.val[i] = values[i].val

\* C6: null collapse in the packer.  collect_decoded returns the empty
\* string at every position whose row was null or empty, and row sequences
\* that differ only by null against empty give the same buffer and the same
\* decoded sequence.
NullCollapse ==
    (column.kind = "packer" /\ result.op = "collect_decoded")
    => /\ result.out.ok
       /\ \A i \in 1..Len(values) :
              IsNullOrEmpty(values[i])
              => i <= Len(result.out.val) /\ result.out.val[i] = <<>>
       /\ \A other \in [1..Len(values) -> Range(values) \cup {None, Some(<<>>)}] :
              SameUpToNullEmpty(values, other)
              => /\ StringPacker_from_strings(other) = column
                 /\ collect_decoded(StringPacker_from_strings(other)) = result.out

\* C7: dictionary bound.  from_strings with more than 65536 unique values
\* panics, and in a column that is returned every dictionary position is its
\* own 16-bit index: none is past 65535 and no two entries share an index.
DictionaryBound ==
    DictBuilt
    => /\ (result.op = "DictEncodedStrings::from_strings"
           /\ HashSetLen(unique_values) > 65536)
           => column.kind = "panic"
       /\ column.kind = "dict"
           => LET m == column.mapping
                  P == {0, m.len - 1} \cup {m.off + k - 1 : k \in 1..Len(m.head)}
              IN /\ m.len <= 65536
                 /\ \A p \in P : p >= 0 => EntryIndex(m, p) = p
                 /\ \A p, q \in P : (p >= 0 /\ q >= 0 /\ p # q)
                        => EntryIndex(m, p) # EntryIndex(m, q)

DictionaryBoundWitness ==
    /\ result.op = "DictEncodedStrings::from_strings"
    /\ HashSetLen(unique_values) > 65536
    /\ Covers
    /\ column.kind = "panic"

\* C8 as stated: filter_decode on a packer column with a mask whose length
\* is not the row count panics.
MaskMismatchFatal ==
    (/\ column.kind = "packer"
     /\ result.op = "filter_decode"
     /\ Len(result.filter) # Len(values))
    => result.out = Panic

\* C8 as amended: filter_decode on a packer column with a mask whose length
\* is not the row count returns; the result is the elements of
\* collect_decoded at the set-bit positions that both the decoded sequence
\* and the mask have, in order.
MaskMismatchTruncates ==
    (/\ column.kind = "packer"
     /\ result.op = "filter_decode"
     /\ Len(result.filter) # Len(values))
    => /\ result.out.ok
       /\ collect_decoded(column).ok
       /\ result.out.val = Selected(collect_decoded(column).val, result.filter)

MaskMismatchWitness ==
    /\ column.kind = "packer"
    /\ result.op = "filter_decode"
    /\ Len(result.filter) > Len(values)
    /\ result.filter[Len(result.filter)]
    /\ \E i, j \in 1..Len(values) : result.filter[i] /\ ~result.filter[j]
    /\ result.out.ok
    /\ Len(result.out.val) >= 1

\* C9: dictionary invariant.  A column from_strings returns has one index
\* per row, each index is a position of the dictionary, and the entry at a
\* row's index is the row's value, null for a null row; when a row value is
\* missing from the unique-value set, construction panics.
DictionaryInvariant ==
    /\ column.kind = "dict"
        => /\ Len(column.encoded_values) = Len(values)
           /\ \A i \in 1..Len(values) :
                 /\ column.encoded_values[i] \in 0..U16_MAX
                 /\ column.encoded_values[i] < column.mapping.len
                 /\ MappingAt(column.mapping, column.encoded_values[i]) = values[i]
    /\ (result.op = "DictEncodedStrings::from_strings" /\ ~Covers)
        => column.kind = "panic"

DictionaryInvariantWitness ==
    /\ result.op = "DictEncodedStrings::from_strings"
    /\ column.kind = "dict"
    /\ HasNull(values)
    /\ Cardinality(Range(values)) >= 2
    /\ column.mapping.off > 0

\* C10: the reader is finite and in bounds.  A fresh reader over a packer
\* built from n rows yields exactly n elements and then only the end; its
\* cursor never exceeds the buffer length and no scan runs off the buffer;
\* another fresh reader yields the same elements.
ReaderFiniteInBounds ==
    reader.active
    => /\ ~reader.panicked
       /\ reader.curr_index <= Len(column.data)
       /\ Len(reader.yielded) <= Len(values)
       /\ reader.ended > 0
           => /\ Len(reader.yielded) = Len(values)
              /\ reader.curr_index >= Len(column.data)
              /\ CollectFrom(column.data, iter(column).curr_index)
                     = Ok(reader.yielded)

====
